---------------------------- MODULE Spec2Model ----------------------------
(***************************************************************************)
(* pyraxis: the RAXIS detector image decoder (pyraxis/pyraxis.py), its     *)
(* stand-alone duplicate (raxis_to_image.py) and the two command-line      *)
(* batch drivers (pyraxis/raxis_to_tiff.py, raxis_to_image.py).            *)
(*                                                                         *)
(* A file is a sequence of bytes (TLA+ sequences are 1-based, so the byte  *)
(* at Python offset o is arr[o + 1]).  Python longs are unbounded; they    *)
(* are kept here as little-endian sequences of base-256 digits without     *)
(* leading zeros (zero is << >>), so that products above 2^32 are          *)
(* computed for real.  A Python float is kept as a count of quarters, which *)
(* is exact for every float met here (all are multiples of 1/4).           *)
(***************************************************************************)
EXTENDS Integers, Sequences, FiniteSets, TLC

VARIABLES driver, fileext, force, idx, pc, raw, outcome

vars == <<driver, fileext, force, idx, pc, raw, outcome>>

---------------------------------------------------------------------------
(* Bounds of the model *)

\* number of <oscfile> arguments given to the driver
NumFiles == 2
\* small image dimensions run over 0..MaxDim
MaxDim == 2

---------------------------------------------------------------------------
(* Program constants *)

WidthOffset == 768
HeightOffset == 772
DimsEnd == 776
VersionOffset == 796
HeaderEnd == 800
VersionThreshold == 20
MagicLen == 5
\* 'RAXIS'
MAGIC == <<82, 65, 88, 73, 83>>

Min(a, b) == IF a < b THEN a ELSE b

---------------------------------------------------------------------------
(* Python longs: little-endian base-256 digit sequences *)

RECURSIVE Norm(_)
Norm(d) ==
    IF d = << >> THEN << >>
    ELSE IF d[Len(d)] = 0 THEN Norm(SubSeq(d, 1, Len(d) - 1))
    ELSE d

RECURSIVE FromInt(_)
FromInt(n) == IF n = 0 THEN << >> ELSE <<n % 256>> \o FromInt(n \div 256)

RECURSIVE LongAddC(_, _, _)
LongAddC(a, b, c) ==
    IF a = << >> /\ b = << >>
    THEN (IF c = 0 THEN << >> ELSE <<c>>)
    ELSE LET x == IF a = << >> THEN 0 ELSE Head(a)
             y == IF b = << >> THEN 0 ELSE Head(b)
             s == x + y + c
         IN  <<s % 256>> \o LongAddC(IF a = << >> THEN << >> ELSE Tail(a),
                                     IF b = << >> THEN << >> ELSE Tail(b),
                                     s \div 256)

LongAdd(a, b) == Norm(LongAddC(a, b, 0))

RECURSIVE LongMulDigit(_, _, _)
LongMulDigit(a, d, c) ==
    IF a = << >>
    THEN (IF c = 0 THEN << >> ELSE <<c>>)
    ELSE LET p == Head(a) * d + c
         IN  <<p % 256>> \o LongMulDigit(Tail(a), d, p \div 256)

RECURSIVE LongMulFull(_, _)
LongMulFull(a, b) ==
    IF b = << >> THEN << >>
    ELSE Norm(LongAddC(LongMulDigit(a, Head(b), 0),
                       <<0>> \o LongMulFull(a, Tail(b)), 0))

\* what numpy's uint32 multiplication would give: the product modulo 2^32
LongMulWrap32(a, b) == Norm(SubSeq(LongMulFull(a, b), 1, Min(4, Len(LongMulFull(a, b)))))

\* width * height on Python longs
LongMul(a, b) == LongMulFull(a, b)

RECURSIVE LongLessFrom(_, _, _)
LongLessFrom(a, b, i) ==
    IF i = 0 THEN FALSE
    ELSE IF a[i] # b[i] THEN a[i] < b[i]
    ELSE LongLessFrom(a, b, i - 1)

\* a < b on normalised longs
LongLess(a, b) ==
    IF Len(a) # Len(b) THEN Len(a) < Len(b) ELSE LongLessFrom(a, b, Len(a))

RECURSIVE LongSubB(_, _, _)
LongSubB(a, b, c) ==
    IF a = << >> THEN << >>
    ELSE LET y == IF b = << >> THEN 0 ELSE Head(b)
             s == Head(a) - y - c
         IN  <<s % 256>> \o LongSubB(Tail(a),
                                     IF b = << >> THEN << >> ELSE Tail(b),
                                     IF s < 0 THEN 1 ELSE 0)

\* a - b for a >= b
LongSub(a, b) == Norm(LongSubB(a, b, 0))

RECURSIVE ToInt(_)
\* the value of a long known to fit a TLC integer
ToInt(d) == IF d = << >> THEN 0 ELSE Head(d) + 256 * ToInt(Tail(d))

---------------------------------------------------------------------------
(* numpy operations on a 1-dimensional uint8 array *)

\* arr[a:b] with 0 <= a <= b: Python clamps both ends to the length
Slice(arr, a, b) == SubSeq(arr, Min(a, Len(arr)) + 1, Min(b, Len(arr)))

\* ndarray.view(dtype) raises ValueError unless the byte count is a multiple
\* of the new item size
ViewFails(s, itemsize) == Len(s) % itemsize # 0

Reverse(s) == [i \in 1..Len(s) |-> s[Len(s) + 1 - i]]

\* the single element of a 4-byte array viewed as '>u4' or '<u4', as a long
ViewU4(s, endian) == Norm(IF endian = ">" THEN Reverse(s) ELSE s)

\* element e (0-based) of arr.view(endian + 'u2')
ViewU2(arr, endian, e) ==
    IF endian = ">" THEN 256 * arr[2 * e + 1] + arr[2 * e + 2]
    ELSE arr[2 * e + 1] + 256 * arr[2 * e + 2]

\* the value of n / 4 under "from __future__ import division", in quarters
TrueDiv4(n) == n

\* the value of n / 4 under Python 2's classic integer division, in quarters
FloorDiv4(n) == 4 * (n \div 4)

\* len(arr) / 4
QuarterLen(n) == TrueDiv4(n)

RECURSIVE Pow2(_)
Pow2(c) == IF c = 0 THEN 1 ELSE 2 * Pow2(c - 1)

RECURSIVE BitLenDigit(_)
BitLenDigit(d) == IF d = 0 THEN 0 ELSE 1 + BitLenDigit(d \div 2)

\* the number of significant bits of a long
BitLen(x) == IF x = << >> THEN 0 ELSE 8 * (Len(x) - 1) + BitLenDigit(x[Len(x)])

\* x >> k and x << k on longs
ShiftRight(x, k) ==
    LET d == SubSeq(x, k \div 8 + 1, Len(x))
        c == k % 8
    IN  Norm([i \in 1..Len(d) |->
                 d[i] \div Pow2(c)
                 + (IF i < Len(d) THEN (d[i + 1] % Pow2(c)) * Pow2(8 - c) ELSE 0)])

ShiftLeft(x, k) ==
    IF x = << >> THEN << >>
    ELSE [i \in 1..(k \div 8) |-> 0] \o Norm(LongMulDigit(x, Pow2(k % 8), 0))

\* the nearest IEEE double (53 significant bits, ties to even) of a
\* non-negative value; the unit of x may be any power of two
RoundToDouble(x) ==
    IF BitLen(x) <= 53 THEN x
    ELSE LET k == BitLen(x) - 53
             q == ShiftRight(x, k)
             r == LongSub(x, ShiftLeft(q, k))
             half == ShiftLeft(<<1>>, k - 1)
             up == LongLess(half, r) \/ (r = half /\ q[1] % 2 = 1)
         IN  ShiftLeft(IF up THEN LongAdd(q, <<1>>) ELSE q, k)

\* q / 4 - p for a float of q quarters and a long p: p is converted to a
\* double and the difference is rounded to a double; the result is in
\* quarters, as sign and magnitude
Discrepancy(q, p) ==
    LET p4 == ShiftLeft(RoundToDouble(p), 2)
        q4 == FromInt(q)
    IN  IF LongLess(q4, p4)
        THEN [neg |-> TRUE, mag |-> RoundToDouble(LongSub(p4, q4))]
        ELSE [neg |-> FALSE, mag |-> RoundToDouble(LongSub(q4, p4))]

NoDiag ==
    [present |-> FALSE, len |-> 0, quarter |-> 0, width |-> << >>,
     height |-> << >>, disc |-> [neg |-> FALSE, mag |-> << >>]]

\* the values formatted into the diagnostics text
Diagnostics(arr, width, height) ==
    [present |-> TRUE, len |-> Len(arr), quarter |-> QuarterLen(Len(arr)),
     width |-> width, height |-> height,
     disc |-> Discrepancy(QuarterLen(Len(arr)), LongMul(width, height))]

---------------------------------------------------------------------------
(* The decoder *)

\* the result of a call that raised exc before an image was made
Failed(exc, fields, endian, width, height, diag) ==
    [exc |-> exc, fields |-> fields, endian |-> endian, width |-> width,
     height |-> height, pixelCount |-> << >>, diag |-> diag, data |-> << >>]

NoResult == Failed("none", {}, "none", << >>, << >>, NoDiag)

\* the version test with the threshold included: <= 20
EndianInclusive(arr) ==
    LET ver == Slice(arr, VersionOffset, HeaderEnd)
    IN  IF ViewFails(ver, 4) THEN "ValueError"
        ELSE IF ver # << >>
                /\ LongLess(ViewU4(ver, ">"), FromInt(VersionThreshold + 1))
        THEN ">"
        ELSE "<"

\* '>' if arr[796:800].view('>u4') < 20 else '<'; an empty comparison
\* result is false
Endian(arr) ==
    LET ver == Slice(arr, VersionOffset, HeaderEnd)
    IN  IF ViewFails(ver, 4) THEN "ValueError"
        ELSE IF ver # << >> /\ LongLess(ViewU4(ver, ">"), FromInt(VersionThreshold))
        THEN ">"
        ELSE "<"

\* long(arr[a:b].view(endian + 'u4')): the exception raised, or "none"
ReadU4Error(arr, a, b) ==
    IF ViewFails(Slice(arr, a, b), 4) THEN "ValueError"
    ELSE IF Slice(arr, a, b) = << >> THEN "TypeError"
    ELSE "none"

ReadU4(arr, a, b, endian) == ViewU4(Slice(arr, a, b), endian)

\* the number of elements of arr16[-(p):] for an array of n elements:
\* -0 is 0, so a zero count selects the whole array
TailCount(n, p) ==
    IF p # << >> /\ LongLess(p, FromInt(n)) THEN ToInt(p) ELSE n

\* reshape((width, height)) raises ValueError unless the sizes agree
ReshapeFails(count, width, height) == LongMulFull(width, height) # FromInt(count)

\* the same slice reshaped to (height, width)
SliceReshapeTransposed(arr, endian, width, height) ==
    LET n == Len(arr) \div 2
        count == TailCount(n, LongMul(width, height))
        first == n - count
        w == IF count = 0 THEN 0 ELSE ToInt(width)
        h == IF count = 0 THEN 0 ELSE ToInt(height)
    IN  [i \in 1..h |->
            [j \in 1..w |-> ViewU2(arr, endian, first + (i - 1) * w + (j - 1))]]

\* the first width * height samples instead of the last: [:(width * height)]
SliceReshapeHead(arr, endian, width, height) ==
    LET n == Len(arr) \div 2
        count == TailCount(n, LongMul(width, height))
        w == IF count = 0 THEN 0 ELSE ToInt(width)
        h == IF count = 0 THEN 0 ELSE ToInt(height)
    IN  [i \in 1..w |->
            [j \in 1..h |-> ViewU2(arr, endian, (i - 1) * h + (j - 1))]]

\* arr.view(endian + 'u2')[-(width * height):].reshape((width, height))
SliceReshape(arr, endian, width, height) ==
    LET n == Len(arr) \div 2
        count == TailCount(n, LongMul(width, height))
        first == n - count
        w == IF count = 0 THEN 0 ELSE ToInt(width)
        h == IF count = 0 THEN 0 ELSE ToInt(height)
    IN  [i \in 1..w |->
            [j \in 1..h |-> ViewU2(arr, endian, first + (i - 1) * h + (j - 1))]]

SliceReshapeFails(arr, width, height) ==
    \/ ViewFails(arr, 2)
    \/ ReshapeFails(TailCount(Len(arr) \div 2, LongMul(width, height)),
                    width, height)

\* the stages of _interpret / interpret up to the try block
Header(arr) ==
    LET endian == Endian(arr)
        werr == ReadU4Error(arr, WidthOffset, HeightOffset)
        herr == ReadU4Error(arr, HeightOffset, DimsEnd)
        width == ReadU4(arr, WidthOffset, HeightOffset, endian)
        height == ReadU4(arr, HeightOffset, DimsEnd, endian)
    IN  IF endian = "ValueError"
        THEN Failed("ValueError", {"version"}, "none", << >>, << >>, NoDiag)
        ELSE IF werr # "none"
        THEN Failed(werr, {"version", "width"}, endian, << >>, << >>, NoDiag)
        ELSE IF herr # "none"
        THEN Failed(herr, {"version", "width", "height"}, endian, width,
                    << >>, NoDiag)
        ELSE Failed("none", {"version", "width", "height"}, endian, width,
                    height, NoDiag)

\* _interpret without its try block: numpy's ValueError leaves the call
pyraxis_interpret_unwrapped(arr) ==
    LET hd == Header(arr)
        diag == Diagnostics(arr, hd.width, hd.height)
    IN  IF hd.exc # "none" THEN hd
        ELSE IF SliceReshapeFails(arr, hd.width, hd.height)
        THEN [hd EXCEPT !.exc = "ValueError",
                        !.pixelCount = LongMul(hd.width, hd.height),
                        !.diag = diag]
        ELSE [hd EXCEPT !.pixelCount = LongMul(hd.width, hd.height),
                        !.diag = diag,
                        !.data = SliceReshape(arr, hd.endian, hd.width, hd.height)]

\* pyraxis._interpret
pyraxis_interpret(arr) ==
    LET hd == Header(arr)
        diag == Diagnostics(arr, hd.width, hd.height)
    IN  IF hd.exc # "none" THEN hd
        ELSE IF SliceReshapeFails(arr, hd.width, hd.height)
        THEN [hd EXCEPT !.exc = "pyraxis.ShapeError",
                        !.pixelCount = LongMul(hd.width, hd.height),
                        !.diag = diag]
        ELSE [hd EXCEPT !.pixelCount = LongMul(hd.width, hd.height),
                        !.diag = diag,
                        !.data = SliceReshape(arr, hd.endian, hd.width, hd.height)]

\* raxis_to_image.interpret
image_interpret(arr) ==
    LET hd == Header(arr)
    IN  IF hd.exc # "none" THEN hd
        ELSE IF SliceReshapeFails(arr, hd.width, hd.height)
        THEN [hd EXCEPT !.exc = "raxis_to_image.ShapeError",
                        !.pixelCount = LongMul(hd.width, hd.height),
                        !.diag = Diagnostics(arr, hd.width, hd.height)]
        ELSE [hd EXCEPT !.pixelCount = LongMul(hd.width, hd.height),
                        !.data = SliceReshape(arr, hd.endian, hd.width, hd.height)]

\* a signature test that looks at four bytes only
NotRaxisFirst4(arr) == Slice(arr, 0, MagicLen - 1) # SubSeq(MAGIC, 1, MagicLen - 1)

\* raw[:5].tostring() != 'RAXIS'
NotRaxis(arr) == Slice(arr, 0, MagicLen) # MAGIC

\* pyraxis.read_raxis_file, given the bytes np.fromfile returned
read_raxis_file(arr) ==
    IF NotRaxis(arr)
    THEN Failed("IOError", {}, "none", << >>, << >>, NoDiag)
    ELSE pyraxis_interpret(arr)

---------------------------------------------------------------------------
(* Exceptions and the two convert functions *)

\* isinstance(exc, cls): pyraxis.ShapeError derives from IOError, the
\* ShapeError classes of the two scripts derive from Exception only
IsInstance(exc, cls) ==
    \/ exc = cls
    \/ exc = "pyraxis.ShapeError" /\ cls = "IOError"

\* the two early returns of convert: an unsupported extension, or an
\* existing destination without --force
ReturnsEarly(ext, forced, exists) ==
    IF ext \notin {"tif", "tiff"} THEN "unsupported"
    ELSE IF exists /\ ~forced THEN "exists"
    ELSE "none"

Outcome(kind, exc, res) == [kind |-> kind, exc |-> exc, res |-> res]

\* pyraxis/raxis_to_tiff.py convert, given the bytes of the file
tiff_convert(buf, ext, forced, exists) ==
    LET early == ReturnsEarly(ext, forced, exists)
        res == read_raxis_file(buf)
    IN  IF early # "none" THEN Outcome(early, "none", NoResult)
        ELSE IF res.exc # "none" THEN Outcome("raised", res.exc, res)
        ELSE Outcome("converted", "none", res)

\* raxis_to_image.py convert, given the bytes of the file
image_convert(buf, ext, forced, exists) ==
    LET early == ReturnsEarly(ext, forced, exists)
        res == image_interpret(buf)
    IN  IF early # "none" THEN Outcome(early, "none", NoResult)
        ELSE IF NotRaxis(buf) THEN Outcome("not_raxis", "none", NoResult)
        ELSE IF res.exc # "none" THEN Outcome("raised", res.exc, res)
        ELSE Outcome("converted", "none", res)

\* the class named by the except clause of each driver's loop
Handler(drv) ==
    IF drv = "raxis_to_tiff" THEN "raxis_to_tiff.ShapeError"
    ELSE "raxis_to_image.ShapeError"

\* where the loop stands after one call of convert
AfterConvert(drv, o) ==
    IF o.exc = "none" \/ IsInstance(o.exc, Handler(drv)) THEN "next"
    ELSE "aborted"

---------------------------------------------------------------------------
(* The files given to the drivers *)

\* filler for the bytes no header field covers, by 0-based offset
Fill(o) == (o * 37 + 11) % 256

EncodeU4(v, endian) ==
    LET le == <<v % 256, (v \div 256) % 256, (v \div 65536) % 256,
                v \div 16777216>>
    IN  IF endian = ">" THEN Reverse(le) ELSE le

Build(magic, len, marker, e, w, h) ==
    [i \in 1..len |->
        IF i <= MagicLen THEN magic[i]
        ELSE IF i > WidthOffset /\ i <= HeightOffset
        THEN EncodeU4(w, e)[i - WidthOffset]
        ELSE IF i > HeightOffset /\ i <= DimsEnd
        THEN EncodeU4(h, e)[i - HeightOffset]
        ELSE IF i > VersionOffset /\ i <= HeaderEnd
        THEN marker[i - VersionOffset]
        ELSE Fill(i - 1)]

\* version 5 stored big-endian, version 5 stored little-endian and the
\* marker that reads 20 big-endian, each with the byte order of its fields
Headers ==
    {[marker |-> EncodeU4(5, ">"), e |-> ">"],
     [marker |-> EncodeU4(5, "<"), e |-> "<"],
     [marker |-> EncodeU4(20, ">"), e |-> "<"]}

\* 20 * 20 u16 samples fill an 800-byte file exactly; 70000 * 70000
\* exceeds 2^32
DimPairs ==
    ((0..MaxDim) \X (0..MaxDim))
        \cup {<<20, 20>>, <<20, 21>>, <<70000, 70000>>, <<70000, 1>>, <<1, 70000>>}

ShortLens == {0, 3, 5, 768, 770, 772, 774, 776, 781, 796, 798}

FullLens == {800, 801} \cup {800 + 2 * w * h : w \in 1..MaxDim, h \in 1..MaxDim}

\* 'RAXIT' and 'raxis'
BadMagics == {<<82, 65, 88, 73, 84>>, <<114, 97, 120, 105, 115>>}

GoodBuffers ==
    {Build(MAGIC, len, hd.marker, hd.e, d[1], d[2]) :
        len \in ShortLens \cup FullLens, hd \in Headers, d \in DimPairs}

BadBuffers ==
    {Build(m, len, hd.marker, hd.e, d[1], d[2]) :
        m \in BadMagics, len \in {5, 776, 800, 802}, hd \in Headers,
        d \in {<<1, 1>>, <<2, 0>>}}

Buffers == GoodBuffers \cup BadBuffers

---------------------------------------------------------------------------
(* The drivers *)

Init ==
    /\ driver \in {"raxis_to_tiff", "raxis_to_image"}
    /\ fileext \in {"tif", "png"}
    /\ force \in BOOLEAN
    /\ idx = 0
    /\ pc = "for"
    /\ raw = << >>
    /\ outcome = Outcome("none", "none", NoResult)

\* the body of "for oscfile in arguments['<oscfile>']" of raxis_to_tiff.py:
\* the call of convert with the except clause around it.  raw is the array
\* np.fromfile returned (empty when convert returned before reading).
TiffIteration ==
    /\ driver = "raxis_to_tiff"
    /\ pc = "for"
    /\ idx < NumFiles
    /\ idx' = idx + 1
    /\ \/ \E exists \in BOOLEAN :
            /\ ReturnsEarly(fileext, force, exists) # "none"
            /\ outcome' = tiff_convert(<< >>, fileext, force, exists)
            /\ raw' = << >>
       \/ /\ \E exists \in BOOLEAN : ReturnsEarly(fileext, force, exists) = "none"
          /\ \E buf \in Buffers :
                /\ raw' = buf
                /\ outcome' = tiff_convert(buf, fileext, force, FALSE)
    /\ pc' = AfterConvert(driver, outcome')
    /\ UNCHANGED <<driver, fileext, force>>

\* the body of the loop of raxis_to_image.py
ImageIteration ==
    /\ driver = "raxis_to_image"
    /\ pc = "for"
    /\ idx < NumFiles
    /\ idx' = idx + 1
    /\ \/ \E exists \in BOOLEAN :
            /\ ReturnsEarly(fileext, force, exists) # "none"
            /\ outcome' = image_convert(<< >>, fileext, force, exists)
            /\ raw' = << >>
       \/ /\ \E exists \in BOOLEAN : ReturnsEarly(fileext, force, exists) = "none"
          /\ \E buf \in Buffers :
                /\ raw' = buf
                /\ outcome' = image_convert(buf, fileext, force, FALSE)
    /\ pc' = AfterConvert(driver, outcome')
    /\ UNCHANGED <<driver, fileext, force>>

\* the for statement takes up the next file: the locals of the call that
\* ended are gone
NextFile ==
    /\ pc = "next"
    /\ pc' = "for"
    /\ raw' = << >>
    /\ outcome' = Outcome("none", "none", NoResult)
    /\ UNCHANGED <<driver, fileext, force, idx>>

\* the loop ran out of files
Finish ==
    /\ pc = "for"
    /\ idx = NumFiles
    /\ pc' = "done"
    /\ UNCHANGED <<driver, fileext, force, idx, raw, outcome>>

Next == TiffIteration \/ ImageIteration \/ NextFile \/ Finish

Spec == Init /\ [][Next]_vars

---------------------------------------------------------------------------
(* Vocabulary of the properties *)

\* a file was read in the iteration that just ended
ReadFile == pc \in {"next", "aborted"} /\ outcome.kind \notin {"unsupported", "exists"}

ValidMagic == Len(raw) >= MagicLen /\ SubSeq(raw, 1, MagicLen) = MAGIC

ShapeErrors == {"pyraxis.ShapeError", "raxis_to_image.ShapeError"}

\* the call ended with the not-a-RAXIS-file failure: read_raxis_file raises
\* the IOError, the convert of raxis_to_image.py prints the message and returns
FailedNotRaxis ==
    IF driver = "raxis_to_tiff"
    THEN outcome.kind = "raised" /\ outcome.exc = "IOError"
    ELSE outcome.kind = "not_raxis" /\ outcome.exc = "none"

\* the bytes 796..799 of the file
Marker == SubSeq(raw, VersionOffset + 1, HeaderEnd)

\* the number of pixels of the returned image
PixelsReturned(data) == IF data = << >> THEN 0 ELSE Len(data) * Len(data[1])

\* C1: a file of at least 5 bytes whose first 5 bytes are not 'RAXIS' ends
\* with the not-a-RAXIS-file failure whatever its length and the rest of its
\* bytes, before any header field is read and without an image.
C1_NotRaxisFirst ==
    (ReadFile /\ Len(raw) >= MagicLen /\ SubSeq(raw, 1, MagicLen) # MAGIC)
        => /\ FailedNotRaxis
           /\ outcome.res.fields = {}
           /\ outcome.res.endian = "none"
           /\ outcome.res.data = << >>

C1_Witness ==
    /\ ReadFile
    /\ driver = "raxis_to_tiff"
    /\ Len(raw) >= MagicLen /\ Len(raw) < HeaderEnd
    /\ SubSeq(raw, 1, MagicLen - 1) = SubSeq(MAGIC, 1, MagicLen - 1)
    /\ raw[MagicLen] # MAGIC[MagicLen]
    /\ outcome.exc = "IOError"

\* C2: every file shorter than 800 bytes ends with a format error (not a
\* ShapeError, not an untyped ValueError or TypeError) and never with an image.
C2_TooShort ==
    (ReadFile /\ Len(raw) < HeaderEnd)
        => /\ outcome.kind # "converted"
           /\ outcome.exc \notin ShapeErrors \cup {"ValueError", "TypeError"}
           /\ outcome.res.data = << >>

\* C3: for a RAXIS file of at least 800 bytes the byte order is big exactly
\* when bytes 796..799 read big-endian are below 20 (the first three are 0
\* and the last is below 20), so it is a function of those four bytes; the
\* marker 0,0,0,20 gives little, 0,0,0,5 gives big and 5,0,0,0 gives little.
C3_EndianFromMarker ==
    (ReadFile /\ ValidMagic /\ Len(raw) >= HeaderEnd)
        => /\ outcome.res.endian =
                  (IF Marker[1] = 0 /\ Marker[2] = 0 /\ Marker[3] = 0
                      /\ Marker[4] < 20
                   THEN ">" ELSE "<")
           /\ (Marker = <<0, 0, 0, 20>> => outcome.res.endian = "<")
           /\ (Marker = <<0, 0, 0, 5>> => outcome.res.endian = ">")
           /\ (Marker = <<5, 0, 0, 0>> => outcome.res.endian = "<")

C3_Witness ==
    /\ ReadFile /\ ValidMagic /\ Len(raw) >= HeaderEnd
    /\ Marker = <<0, 0, 0, 20>>
    /\ outcome.res.endian = "<"

\* the file is the round-trip fixture for w, h and e: 800 header bytes with
\* a marker selecting e and the dimensions encoded under e, then 2*w*h bytes
IsFixture(w, h, e) ==
    /\ ValidMagic
    /\ Len(raw) = HeaderEnd + 2 * w * h
    /\ Marker \in {hd.marker : hd \in {x \in Headers : x.e = e}}
    /\ SubSeq(raw, WidthOffset + 1, HeightOffset) = EncodeU4(w, e)
    /\ SubSeq(raw, HeightOffset + 1, DimsEnd) = EncodeU4(h, e)

\* pixel number k (0-based) of the fixture: the two bytes at 800 + 2k under e
FixturePixel(k, e) ==
    IF e = ">"
    THEN 256 * raw[HeaderEnd + 2 * k + 1] + raw[HeaderEnd + 2 * k + 2]
    ELSE raw[HeaderEnd + 2 * k + 1] + 256 * raw[HeaderEnd + 2 * k + 2]

\* C4: the round-trip fixture for w >= 1, h >= 1 and e decodes to an image
\* whose first axis has length w and second axis length h, element (i, j)
\* being pixel number i*h + j of the fixture.
C4_RoundTrip ==
    \A w \in 1..MaxDim, h \in 1..MaxDim, e \in {">", "<"} :
        (ReadFile /\ IsFixture(w, h, e))
            => /\ outcome.kind = "converted"
               /\ outcome.res.endian = e
               /\ Len(outcome.res.data) = w
               /\ \A i \in 1..w :
                     /\ Len(outcome.res.data[i]) = h
                     /\ \A j \in 1..h :
                           outcome.res.data[i][j]
                               = FixturePixel((i - 1) * h + (j - 1), e)

C4_Witness ==
    /\ ReadFile /\ IsFixture(1, 2, ">")
    /\ outcome.kind = "converted"
    /\ Len(outcome.res.data) = 1
    /\ outcome.res.data[1][1] # outcome.res.data[1][2]

\* the call got as far as the try block of the decoder
HeaderParsed ==
    /\ ReadFile /\ ValidMagic
    /\ outcome.res.fields = {"version", "width", "height"}
    /\ outcome.res.exc \in {"none"} \cup ShapeErrors

\* width * height of the header fields the decoder read, as a long
Declared == LongMulFull(outcome.res.width, outcome.res.height)

\* C5: a RAXIS file of at least 800 bytes whose declared width*height exceeds
\* floor(length/2) ends with ShapeError and without an image: nothing is
\* truncated to a smaller grid or padded, and no partial result is kept.
C5_ShapeError ==
    (ReadFile /\ ValidMagic /\ Len(raw) >= HeaderEnd
        /\ LongLess(FromInt(Len(raw) \div 2), Declared))
        => /\ outcome.kind = "raised"
           /\ outcome.exc \in ShapeErrors
           /\ outcome.res.exc = outcome.exc
           /\ outcome.res.data = << >>

C5_Witness ==
    /\ ReadFile /\ ValidMagic /\ Len(raw) = HeaderEnd
    /\ Declared = FromInt(Len(raw) \div 2 + 20)
    /\ outcome.exc = "pyraxis.ShapeError"
    /\ outcome.res.data = << >>

RECURSIVE LongMod(_, _)
\* the residue of a long modulo a small m
LongMod(d, m) == IF d = << >> THEN 0 ELSE (Head(d) + 256 * LongMod(Tail(d), m)) % m

\* pairwise coprime moduli whose product exceeds 2^64: two numbers below
\* 2^64 with the same residues are equal
Moduli == {32768, 32767, 32765, 32763, 32761}

\* C6: the pixel count the decoder uses is the true product of the two
\* 32-bit header fields, never the product modulo 2^32; width = height =
\* 70000 gives ShapeError for 4,900,000,000 pixels, not a decode of
\* 605,032,704.
C6_NoWrap ==
    HeaderParsed
        => /\ BitLen(outcome.res.pixelCount) <= 64
           /\ \A m \in Moduli :
                 LongMod(outcome.res.pixelCount, m)
                     = (LongMod(outcome.res.width, m)
                            * LongMod(outcome.res.height, m)) % m
           /\ (outcome.res.width = FromInt(70000)
                  /\ outcome.res.height = FromInt(70000))
                 => /\ outcome.exc \in ShapeErrors
                    /\ outcome.res.data = << >>
                    /\ outcome.res.pixelCount = <<0, 17, 16, 36, 1>>
                    /\ outcome.res.pixelCount # FromInt(605032704)

C6_Witness ==
    /\ HeaderParsed
    /\ outcome.res.width = FromInt(70000)
    /\ outcome.res.height = FromInt(70000)
    /\ Len(outcome.res.pixelCount) = 5
    /\ outcome.exc \in ShapeErrors

\* C7: a failure on one file (not a RAXIS file, a truncated header or a
\* ShapeError) is caught for that file and the loop goes on to the next
\* file, in both drivers.
C7_BatchIsolation ==
    (ReadFile /\ (outcome.exc # "none" \/ outcome.kind = "not_raxis"))
        => pc = "next"

\* q quarters minus the long p, exactly, in quarters
ExactDiff(q, p) ==
    LET p4 == Norm(LongMulDigit(p, 4, 0))
        q4 == FromInt(q)
    IN  IF LongLess(q4, p4)
        THEN [neg |-> TRUE, mag |-> LongSub(p4, q4)]
        ELSE [neg |-> FALSE, mag |-> LongSub(q4, p4)]

\* C8 as stated: the diagnostic of a ShapeError reports floor(length/4) and
\* floor(length/4) - width*height, for every length.
C8_Floored ==
    (ReadFile /\ outcome.exc \in ShapeErrors)
        => /\ outcome.res.diag.present
           /\ outcome.res.diag.quarter = 4 * (Len(raw) \div 4)
           /\ outcome.res.diag.disc = ExactDiff(4 * (Len(raw) \div 4), Declared)

\* C8: the diagnostic of a ShapeError reports the length, the true quotient
\* length/4 (802 bytes give 200.5) and length/4 - width*height, which is
\* exact when 4*width*height is below 2^53; they are the floored values
\* when the length is a multiple of 4.
C8_TrueQuotient ==
    (ReadFile /\ outcome.exc \in ShapeErrors)
        => /\ outcome.res.diag.present
           /\ outcome.res.diag.len = Len(raw)
           /\ outcome.res.diag.quarter = Len(raw)
           /\ outcome.res.diag.width = outcome.res.width
           /\ outcome.res.diag.height = outcome.res.height
           /\ BitLen(Declared) <= 51
                 => outcome.res.diag.disc = ExactDiff(Len(raw), Declared)
           /\ (BitLen(Declared) <= 51 /\ Len(raw) % 4 = 0)
                 => /\ outcome.res.diag.quarter = 4 * (Len(raw) \div 4)
                    /\ outcome.res.diag.disc
                           = ExactDiff(4 * (Len(raw) \div 4), Declared)

C8_Witness ==
    /\ ReadFile /\ outcome.exc \in ShapeErrors
    /\ Len(raw) % 4 = 2
    /\ outcome.res.diag.quarter = Len(raw)
    /\ outcome.res.diag.disc.neg
    /\ BitLen(Declared) <= 51

\* the declared pixel count is at least 1 and at most floor(length/2)
Fits ==
    /\ HeaderParsed /\ Len(raw) >= HeaderEnd
    /\ Declared # << >>
    /\ LongLess(Declared, FromInt(Len(raw) \div 2 + 1))

\* the image is the last width*height 16-bit samples, counted in whole
\* 2-byte units from the end of the file, in row-major order
IsTail ==
    LET w == ToInt(outcome.res.width)
        h == ToInt(outcome.res.height)
        base == Len(raw) - 2 * w * h
        U2(o) == IF outcome.res.endian = ">"
                 THEN 256 * raw[o + 1] + raw[o + 2]
                 ELSE raw[o + 1] + 256 * raw[o + 2]
    IN  /\ outcome.kind = "converted"
        /\ Len(outcome.res.data) = w
        /\ \A i \in 1..w :
              /\ Len(outcome.res.data[i]) = h
              /\ \A j \in 1..h :
                    outcome.res.data[i][j]
                        = U2(base + 2 * ((i - 1) * h + (j - 1)))

\* C9 as stated: whenever 1 <= width*height <= floor(length/2) the decode
\* succeeds with the last width*height samples, for odd lengths too.
C9_AnyLength == Fits => IsTail

\* C9: for an even length the decode succeeds with the last width*height
\* samples, skipping the leading bytes; an odd length is a ShapeError.
C9_EvenLength ==
    Fits => IF Len(raw) % 2 = 0
            THEN IsTail
            ELSE outcome.exc \in ShapeErrors /\ outcome.res.data = << >>

C9_Witness ==
    /\ Fits /\ IsTail
    /\ Len(raw) > HeaderEnd + 2 * PixelsReturned(outcome.res.data)
    /\ PixelsReturned(outcome.res.data) = 2

\* C10: a RAXIS file of at least 800 bytes that declares width 0 or height 0
\* decodes to an empty image.
C10_ZeroDims ==
    (ReadFile /\ ValidMagic /\ Len(raw) >= HeaderEnd
        /\ (SubSeq(raw, WidthOffset + 1, HeightOffset) = <<0, 0, 0, 0>>
               \/ SubSeq(raw, HeightOffset + 1, DimsEnd) = <<0, 0, 0, 0>>))
        => /\ outcome.kind = "converted"
           /\ outcome.exc = "none"
           /\ PixelsReturned(outcome.res.data) = 0

============================================================================
